---- MODULE Spec2Model ----
(***************************************************************************)
(* Model of the railsgot audit scripts:                                    *)
(*   ci-full-history.py   parse_diff_for_lines, main (history build)       *)
(*   correlate_findings.py main (finding correlator)                       *)
(*   get_lines_author.py  find_snippet_in_file, analyze_authors, main      *)
(*   ci-gen.py            main (single-commit report generator)            *)
(* Text is modelled as sequences of one-character strings, a diff text as  *)
(* the sequence of its lines (the result of split('\n')).                  *)
(***************************************************************************)
EXTENDS Integers, Sequences, FiniteSets, TLC

VARIABLES
    \* ---- parse_diff_for_lines (ci-full-history.py) ----
    diff_lines,            \* the lines of diff_content read so far
    file_changes,          \* dict filename -> [line numbers], insertion ordered
    current_file,          \* None or the 'b' path of the current section
    current_lines,         \* accumulator of the current section
    current_new_line_num,  \* new-file line counter
    ppc,                   \* "idle" | "scan" | "done"
    \* ---- ci-full-history.py main ----
    commits,               \* commit list returned by get_commut_list
    fetched,               \* raw outcome of git show per processed commit
    full_history,          \* list of commit records with changed_files
    hpc,                   \* "idle" | "loop" | "saved"
    \* ---- correlate_findings.py main ----
    changed_lines,         \* git_data['changed_lines']
    results,               \* opengrep_data['results']
    cidx,                  \* number of findings processed
    filtered_findings,     \* findings kept so far
    report,                \* output file: written flag and its findings list
    cpc,                   \* "idle" | "loop" | "done" | "raised"
    \* ---- get_lines_author.py find_snippet_in_file ----
    file_text,             \* lines of the target file
    readable,              \* FALSE: open()/readlines() raises
    snippet_text,          \* snippet_text.splitlines()
    widx,                  \* loop variable i of the sliding window
    found,                 \* returned pair: (None, None) or (start, end)
    spc,                   \* "idle" | "read" | "prepare" | "search" | "done"
    \* ---- get_lines_author.py analyze_authors / main ----
    blame_data,            \* attribution records of the range
    aidx,                  \* number of records counted
    authors,               \* dict (author, email) -> count, insertion ordered
    sorted_authors,        \* result of analyze_authors
    result,                \* the result dict built by main
    apc,                   \* "idle" | "count" | "sort" | "report" | "done"
    \* ---- ci-gen.py main ----
    head_commit,           \* the HEAD commit: its changed files and their diffs
    github_event,          \* GITHUB_EVENT_NAME of the run ("local": not set)
    data,                  \* the report dict built by main
    changed_files,         \* result of get_changed_files
    gidx,                  \* number of changed files processed
    gpc                    \* "idle" | "gather" | "list" | "diffs" | "written"

parseVars == <<diff_lines, file_changes, current_file, current_lines,
               current_new_line_num, ppc>>
histVars  == <<commits, fetched, full_history, hpc>>
corrVars  == <<changed_lines, results, cidx, filtered_findings, report, cpc>>
snipVars  == <<file_text, readable, snippet_text, widx, found, spc>>
authVars  == <<blame_data, aidx, authors, sorted_authors, result, apc>>
genVars   == <<head_commit, github_event, data, changed_files, gidx, gpc>>
vars == <<parseVars, histVars, corrVars, snipVars, authVars, genVars>>

----------------------------------------------------------------------------
\* Bounds of the model
MaxDiffLines == 5
MaxCommits == 3
MaxFindings == 2
MaxFileLines == 3
MaxSnippetLines == 3
MaxBlame == 5
MaxHeadFiles == 2

----------------------------------------------------------------------------
\* Text helpers (Python str semantics on sequences of characters)

None == <<"None">>

startswith(s, p) == Len(s) >= Len(p) /\ SubSeq(s, 1, Len(p)) = p

\* s[p:p+len(lit)] == lit, 1-based p
LitAt(s, p, lit) == p + Len(lit) - 1 <= Len(s) /\ SubSeq(s, p, p + Len(lit) - 1) = lit

Whitespace == {" ", "\t", "\r", "\n"}

RECURSIVE lstripChars(_, _)
lstripChars(s, chars) ==
    IF s # <<>> /\ Head(s) \in chars THEN lstripChars(Tail(s), chars) ELSE s

RECURSIVE rstripChars(_, _)
rstripChars(s, chars) ==
    IF s # <<>> /\ s[Len(s)] \in chars
    THEN rstripChars(SubSeq(s, 1, Len(s) - 1), chars) ELSE s

\* str.strip() with no argument
strip(s) == rstripChars(lstripChars(s, Whitespace), Whitespace)

Max(S) == CHOOSE x \in S : \A y \in S : y <= x
Min(S) == CHOOSE x \in S : \A y \in S : x <= y

\* '\n'.join(lines)
RECURSIVE Join(_)
Join(lines) ==
    IF Len(lines) = 0 THEN <<>>
    ELSE IF Len(lines) = 1 THEN lines[1]
    ELSE lines[1] \o <<"\n">> \o Join(Tail(lines))

\* text.split('\n'): always at least one line
RECURSIVE split(_)
split(text) ==
    LET nl == {q \in 1..Len(text) : text[q] = "\n"} IN
    IF nl = {} THEN <<text>>
    ELSE <<SubSeq(text, 1, Min(nl) - 1)>> \o split(SubSeq(text, Min(nl) + 1, Len(text)))


DigitVal == [c \in {"0", "1", "2", "3", "4", "5", "6", "7", "8", "9"} |->
              CASE c = "0" -> 0 [] c = "1" -> 1 [] c = "2" -> 2 [] c = "3" -> 3
                [] c = "4" -> 4 [] c = "5" -> 5 [] c = "6" -> 6 [] c = "7" -> 7
                [] c = "8" -> 8 [] c = "9" -> 9]

IsDigit(c) == c \in DOMAIN DigitVal

\* int(s) for a non-empty string of digits
RECURSIVE int(_)
int(s) == IF s = <<>> THEN 0
          ELSE 10 * int(SubSeq(s, 1, Len(s) - 1)) + DigitVal[s[Len(s)]]

\* position after the longest run of digits that starts at p (\d* greedy)
RECURSIVE SkipDigits(_, _)
SkipDigits(s, p) ==
    IF p <= Len(s) /\ IsDigit(s[p]) THEN SkipDigits(s, p + 1) ELSE p

\* position after an optional (?:,\d+) group at p
SkipOptLen(s, p) ==
    IF LitAt(s, p, <<",">>) /\ SkipDigits(s, p + 1) > p + 1
    THEN SkipDigits(s, p + 1) ELSE p

----------------------------------------------------------------------------
\* parse_diff_for_lines

\* hunk_header_pattern.match(line): int(group(1)), or -1 when there is no match
\* ^@@ -\d+(?:,\d+)? \+(\d+)(?:,(\d+))? @@
hunk_header_pattern(line) ==
    IF ~LitAt(line, 1, <<"@", "@", " ", "-">>) THEN -1
    ELSE LET d1 == SkipDigits(line, 5)
             o1 == SkipOptLen(line, d1)
             p2 == o1 + 2
             d2 == SkipDigits(line, p2)
             o2 == SkipOptLen(line, d2)
         IN  IF /\ d1 > 5
                /\ LitAt(line, o1, <<" ", "+">>)
                /\ d2 > p2
                /\ LitAt(line, o2, <<" ", "@", "@">>)
             THEN int(SubSeq(line, p2, d2 - 1))
             ELSE -1

DiffGitPrefix == <<"d", "i", "f", "f", " ", "-", "-", "g", "i", "t">>

\* diff_header_pattern.match(line): group(2), or None when there is no match
\* ^diff --git a/(.*) b/(.*)   (group 1 is greedy: the last " b/" splits)
diff_header_pattern(line) ==
    LET pre == DiffGitPrefix \o <<" ", "a", "/">>
        cut == {q \in (Len(pre) + 1)..Len(line) : LitAt(line, q, <<" ", "b", "/">>)}
    IN  IF startswith(line, pre) /\ cut # {}
        THEN SubSeq(line, Max(cut) + 3, Len(line))
        ELSE None

\* Python truthiness of current_file (None and '' are false)
Truthy(f) == f # None /\ f # <<>>

\* dict[key] = val on an insertion-ordered dict
DictSet(d, k, v) ==
    IF \E i \in 1..Len(d) : d[i].key = k
    THEN [i \in 1..Len(d) |-> IF d[i].key = k THEN [key |-> k, val |-> v] ELSE d[i]]
    ELSE Append(d, [key |-> k, val |-> v])

DictKeys(d) == {d[i].key : i \in 1..Len(d)}
DictGet(d, k) == d[CHOOSE i \in 1..Len(d) : d[i].key = k].val

\* which branch of the loop body a line takes
LineBranch(cf, line) ==
    IF startswith(line, DiffGitPrefix) THEN "file_header"
    ELSE IF ~Truthy(cf) THEN "no_file"
    ELSE IF hunk_header_pattern(line) # -1 THEN "hunk_header"
    ELSE IF startswith(line, <<"+">>) /\ ~startswith(line, <<"+", "+", "+">>) THEN "added"
    ELSE IF startswith(line, <<" ">>) THEN "context"
    ELSE "other"

\* ParseStep without `current_new_line_num += 1` after an added line
ParseStep_NoIncrement(st, line) ==
    LET br == LineBranch(st.current_file, line) IN
    CASE br = "file_header" ->
           [file_changes |-> IF Truthy(st.current_file)
                             THEN DictSet(st.file_changes, st.current_file, st.current_lines)
                             ELSE st.file_changes,
            current_file |-> diff_header_pattern(line),
            current_lines |-> <<>>,
            current_new_line_num |-> 0]
      [] br = "no_file" -> st
      [] br = "hunk_header" ->
           [st EXCEPT !.current_new_line_num = hunk_header_pattern(line)]
      [] br = "added" ->
           [st EXCEPT !.current_lines = Append(@, st.current_new_line_num)]
      [] br = "context" ->
           [st EXCEPT !.current_new_line_num = @ + 1]
      [] OTHER -> st

\* one iteration of `for line in lines` on the parser state
ParseStep(st, line) ==
    LET br == LineBranch(st.current_file, line) IN
    CASE br = "file_header" ->
           [file_changes |-> IF Truthy(st.current_file)
                             THEN DictSet(st.file_changes, st.current_file, st.current_lines)
                             ELSE st.file_changes,
            current_file |-> diff_header_pattern(line),
            current_lines |-> <<>>,
            current_new_line_num |-> 0]
      [] br = "no_file" -> st
      [] br = "hunk_header" ->
           [st EXCEPT !.current_new_line_num = hunk_header_pattern(line)]
      [] br = "added" ->
           [st EXCEPT !.current_lines = Append(@, st.current_new_line_num),
                      !.current_new_line_num = @ + 1]
      [] br = "context" ->
           [st EXCEPT !.current_new_line_num = @ + 1]
      [] OTHER -> st

\* the "Save last file" step and the returned dict
ParseFinish(st) ==
    IF Truthy(st.current_file)
    THEN DictSet(st.file_changes, st.current_file, st.current_lines)
    ELSE st.file_changes

ParseInit == [file_changes |-> <<>>, current_file |-> None,
              current_lines |-> <<>>, current_new_line_num |-> 0]

RECURSIVE ParseFold(_, _)
ParseFold(st, lines) ==
    IF lines = <<>> THEN st ELSE ParseFold(ParseStep(st, Head(lines)), Tail(lines))

\* parse_diff_for_lines(diff_content): the loop over diff_content.split('\n')
parse_diff_for_lines(diff_content) ==
    ParseFinish(ParseFold(ParseInit, split(diff_content)))

----------------------------------------------------------------------------
\* Idle values of the components a specification does not run

IdleParse == /\ diff_lines = <<>>
             /\ file_changes = <<>>
             /\ current_file = None
             /\ current_lines = <<>>
             /\ current_new_line_num = 0
             /\ ppc = "idle"

IdleHist == /\ commits = <<>>
            /\ fetched = <<>>
            /\ full_history = <<>>
            /\ hpc = "idle"

IdleCorr == /\ changed_lines = <<>>
            /\ results = <<>>
            /\ cidx = 0
            /\ filtered_findings = <<>>
            /\ report = [written |-> FALSE, findings |-> <<>>]
            /\ cpc = "idle"

IdleSnip == /\ file_text = <<>>
            /\ readable = TRUE
            /\ snippet_text = <<>>
            /\ widx = 0
            /\ found = [range |-> FALSE, start |-> 0, end |-> 0]
            /\ spc = "idle"

IdleGen == /\ head_commit = <<>>
           /\ github_event = "local"
           /\ data = <<>>
           /\ changed_files = <<>>
           /\ gidx = 0
           /\ gpc = "idle"

IdleAuth == /\ blame_data = <<>>
            /\ aidx = 0
            /\ authors = <<>>
            /\ sorted_authors = <<>>
            /\ result = [built |-> FALSE]
            /\ apc = "idle"

----------------------------------------------------------------------------
\* Specification of parse_diff_for_lines: the diff text is read line by line

HdrF    == DiffGitPrefix \o <<" ", "a", "/", "f", " ", "b", "/", "f">>
HdrG    == DiffGitPrefix \o <<" ", "a", "/", "f", " ", "b", "/", "g">>
HdrBad  == DiffGitPrefix \o <<" ", "f">>
Hunk1   == <<"@", "@", " ", "-", "1", " ", "+", "1", " ", "@", "@">>
Hunk3   == <<"@", "@", " ", "-", "2", ",", "2", " ", "+", "3", ",", "2", " ", "@", "@", " ", "x">>
Added   == <<"+", "x">>
AddedPP == <<"+", "+", "+", "x">>
Context == <<" ", "x">>
Removed == <<"-", "x">>

DiffVocab == {HdrF, HdrG, HdrBad, Hunk1, Hunk3, Added, AddedPP, Context, Removed}

ParserState == [file_changes |-> file_changes, current_file |-> current_file,
                current_lines |-> current_lines,
                current_new_line_num |-> current_new_line_num]

InitParse ==
    /\ diff_lines = <<>>
    /\ file_changes = ParseInit.file_changes
    /\ current_file = ParseInit.current_file
    /\ current_lines = ParseInit.current_lines
    /\ current_new_line_num = ParseInit.current_new_line_num
    /\ ppc = "scan"
    /\ IdleHist /\ IdleCorr /\ IdleSnip /\ IdleAuth /\ IdleGen

\* the loop body on the next line of the text: the state after it
ReadLine(line) ==
    LET st == ParseStep(ParserState, line) IN
    /\ diff_lines' = Append(diff_lines, line)
    /\ file_changes' = st.file_changes
    /\ current_file' = st.current_file
    /\ current_lines' = st.current_lines
    /\ current_new_line_num' = st.current_new_line_num

\* the lines of the vocabulary that take branch br in the current state
Taking(br) ==
    {line \in DiffVocab : /\ ppc = "scan"
                          /\ Len(diff_lines) < MaxDiffLines
                          /\ LineBranch(current_file, line) = br}

FileHeader ==
    /\ \E line \in Taking("file_header") : ReadLine(line)
    /\ UNCHANGED <<ppc, histVars, corrVars, snipVars, authVars, genVars>>

NoFileLine ==
    /\ \E line \in Taking("no_file") : ReadLine(line)
    /\ UNCHANGED <<ppc, histVars, corrVars, snipVars, authVars, genVars>>

HunkHeader ==
    /\ \E line \in Taking("hunk_header") : ReadLine(line)
    /\ UNCHANGED <<ppc, histVars, corrVars, snipVars, authVars, genVars>>

AddedLine ==
    /\ \E line \in Taking("added") : ReadLine(line)
    /\ UNCHANGED <<ppc, histVars, corrVars, snipVars, authVars, genVars>>

ContextLine ==
    /\ \E line \in Taking("context") : ReadLine(line)
    /\ UNCHANGED <<ppc, histVars, corrVars, snipVars, authVars, genVars>>

OtherLine ==
    /\ \E line \in Taking("other") : ReadLine(line)
    /\ UNCHANGED <<ppc, histVars, corrVars, snipVars, authVars, genVars>>

\* end of input: save the last file and return file_changes
SaveLast ==
    /\ ppc = "scan"
    /\ Len(diff_lines) >= 1
    /\ file_changes' = ParseFinish(ParserState)
    /\ ppc' = "done"
    /\ UNCHANGED <<diff_lines, current_file, current_lines, current_new_line_num,
                   histVars, corrVars, snipVars, authVars, genVars>>

NextParse == \/ FileHeader \/ NoFileLine \/ HunkHeader \/ AddedLine
             \/ ContextLine \/ OtherLine \/ SaveLast

SpecParse == InitParse /\ [][NextParse]_vars

----------------------------------------------------------------------------
\* Properties of parse_diff_for_lines, stated on the text read so far

IsFileHeader(p) == startswith(diff_lines[p], DiffGitPrefix)
IsHunkHeader(p) == ~IsFileHeader(p) /\ hunk_header_pattern(diff_lines[p]) # -1
Marker(p) == IF diff_lines[p] = <<>> THEN "" ELSE diff_lines[p][1]
IsContentLine(p) == ~IsFileHeader(p) /\ ~IsHunkHeader(p) /\ Marker(p) \in {"+", " "}
IsAddedLine(p) == ~IsFileHeader(p) /\ ~IsHunkHeader(p) /\ Marker(p) = "+"

\* header line of the section that line p belongs to (0: before any section)
SectionOf(p) == Max({0} \cup {d \in 1..p : IsFileHeader(d)})
\* last line of the section headed by line d
SectionEnd(d) == Min({Len(diff_lines)} \cup
                     {q - 1 : q \in {r \in (d + 1)..Len(diff_lines) : IsFileHeader(r)}})
SectionFile(d) == diff_header_pattern(diff_lines[d])
\* header line of the hunk that line p belongs to (0: p is in no hunk)
HunkOf(p) == Max({0} \cup {h \in (SectionOf(p) + 1)..(p - 1) : IsHunkHeader(h)})

InHunk(p) ==
    /\ SectionOf(p) > 0
    /\ Truthy(SectionFile(SectionOf(p)))
    /\ HunkOf(p) > 0
    /\ \A q \in (HunkOf(p) + 1)..p : Marker(q) \in {"+", " ", "-"}

\* s + k - 1 for line p, the k-th content line of its hunk
NewLineNo(p) ==
    hunk_header_pattern(diff_lines[HunkOf(p)])
      + Cardinality({q \in (HunkOf(p) + 1)..(p - 1) : IsContentLine(q)})

\* numbers of the added lines in hunks, from line p on, in text order
RECURSIVE ExpectedFrom(_)
ExpectedFrom(p) ==
    IF p > Len(diff_lines) THEN <<>>
    ELSE (IF IsAddedLine(p) /\ InHunk(p) THEN <<NewLineNo(p)>> ELSE <<>>)
           \o ExpectedFrom(p + 1)

CurrentSection == SectionOf(Len(diff_lines))

\* no added-marker line stands between the section header and its first hunk
CleanPreamble(d) ==
    \A q \in (d + 1)..SectionEnd(d) : IsAddedLine(q) => HunkOf(q) > 0

\* C1: within a hunk declared with new start s, the k-th content line has
\* number s + k - 1; exactly the added lines of the hunks are recorded, with
\* that number, whatever their text after the marker.
C1_LineNumbering ==
    (ppc = "scan" /\ CurrentSection > 0 /\ Truthy(current_file)
       /\ CleanPreamble(CurrentSection))
      => current_lines = ExpectedFrom(CurrentSection + 1)

\* C5: the returned mapping has a key only for a file with at least one
\* recorded line.
C5_NoEmptyEntry ==
    ppc = "done" => \A i \in 1..Len(file_changes) : file_changes[i].val # <<>>

\* C10: every recorded number is >= 1 and is recorded after a hunk header of
\* the current section; a section without hunk header records nothing.
C10_PositiveInsideHunk ==
    /\ \A j \in 1..Len(current_lines) : current_lines[j] >= 1
    /\ \A i \in 1..Len(file_changes) :
         \A j \in 1..Len(file_changes[i].val) : file_changes[i].val[j] >= 1
    /\ (ppc = "scan" /\ CurrentSection > 0
          /\ ~\E h \in (CurrentSection + 1)..Len(diff_lines) : IsHunkHeader(h))
         => current_lines = <<>>

StrictlyAscending(s) == \A j \in 1..(Len(s) - 1) : s[j] < s[j + 1]

\* value of the line counter when line p of the section headed by d is read
CounterAt(d, p) ==
    LET h == Max({0} \cup {q \in (d + 1)..(p - 1) : IsHunkHeader(q)})
        base == IF h = 0 THEN 0 ELSE hunk_header_pattern(diff_lines[h])
        from == IF h = 0 THEN d ELSE h
    IN  base + Cardinality({q \in (from + 1)..(p - 1) :
              LineBranch(SectionFile(d), diff_lines[q]) \in {"added", "context"}})

\* every hunk header of the section starts at or after the counter reached
HunksAscend(d) ==
    \A h \in (d + 1)..SectionEnd(d) :
        IsHunkHeader(h) => hunk_header_pattern(diff_lines[h]) >= CounterAt(d, h)

\* the section whose list the returned mapping holds for file k
LastSectionOfFile(k) ==
    Max({d \in 1..Len(diff_lines) : IsFileHeader(d) /\ SectionFile(d) = k})

\* C6 (as stated): every list of the returned mapping is strictly ascending,
\* for every diff text.
C6_AscendingAnyText ==
    ppc = "done" =>
        \A i \in 1..Len(file_changes) : StrictlyAscending(file_changes[i].val)

\* C6 (amended): every list of the returned mapping is strictly ascending
\* when each hunk header of the file's section declares a new start that is
\* not below the line counter reached when it is read.
C6_AscendingWhenHunksAscend ==
    ppc = "done" =>
        \A i \in 1..Len(file_changes) :
            HunksAscend(LastSectionOfFile(file_changes[i].key))
              => StrictlyAscending(file_changes[i].val)

\* a file with two hunks in ascending order and a line recorded in each
C6_Witness ==
    /\ ppc = "done"
    /\ \E i \in 1..Len(file_changes) :
         LET d == LastSectionOfFile(file_changes[i].key) IN
         /\ HunksAscend(d)
         /\ Len(file_changes[i].val) >= 2
         /\ \E h1, h2 \in (d + 1)..SectionEnd(d) :
              /\ h1 < h2 /\ IsHunkHeader(h1) /\ IsHunkHeader(h2)
              /\ \E q \in (h1 + 1)..(h2 - 1) : IsAddedLine(q)
              /\ \E q \in (h2 + 1)..SectionEnd(d) : IsAddedLine(q)

----------------------------------------------------------------------------
\* ci-full-history.py main: the history build

\* what git show prints for a commit (stdout before run_command strips it)
RawEmpty  == <<>>
RawOne    == Join(<<HdrF, Hunk1, Added, <<>>>>)
RawBlank  == Join(<<HdrF, Hunk1, Context, Added, <<" ">>, <<>>>>)
RawTwo    == Join(<<HdrG, Hunk1, Added, HdrF, Hunk3, Removed, Added, Added, <<>>>>)
RawRename == Join(<<HdrG, <<"r", "e", "n", "a", "m", "e">>, <<>>>>)
RawDiffs  == {RawEmpty, RawOne, RawBlank, RawTwo, RawRename}

Hashes == {"c1", "c2"}

\* run_command: stdout.strip(), or None on CalledProcessError
run_command(out) == IF out = None THEN None ELSE strip(out)

\* get_commit_diff(commit['hash'])
get_commit_diff(out) == run_command(out)

\* the dict-to-list transformation of main
changed_files_list(map) ==
    [i \in 1..Len(map) |-> [file |-> map[i].key, changed_lines |-> map[i].val]]

\* ProcessCommit that leaves out the record of a commit whose fetch failed
ProcessCommit_SkipFailed(history, commit, diff_output) ==
    IF diff_output = None THEN history
    ELSE Append(history, [hash |-> commit.hash,
                          changed_files |->
                              changed_files_list(parse_diff_for_lines(diff_output))])

\* the body of the loop over commits, after the fetch
ProcessCommit(history, commit, diff_output) ==
    LET changed_files_map ==
            IF diff_output # None /\ diff_output # <<>>
            THEN parse_diff_for_lines(diff_output)
            ELSE <<>>
    IN  Append(history, [hash |-> commit.hash,
                         changed_files |-> changed_files_list(changed_files_map)])

InitHist ==
    /\ commits \in UNION {[1..n -> [hash : Hashes]] : n \in 0..MaxCommits}
    /\ fetched = <<>>
    /\ full_history = <<>>
    /\ hpc = "loop"
    /\ IdleParse /\ IdleCorr /\ IdleSnip /\ IdleAuth /\ IdleGen

\* one iteration whose git show fails
FetchFails ==
    /\ hpc = "loop"
    /\ Len(full_history) < Len(commits)
    /\ fetched' = Append(fetched, None)
    /\ full_history' = ProcessCommit(full_history, commits[Len(fetched) + 1],
                                     get_commit_diff(None))
    /\ UNCHANGED <<commits, hpc, parseVars, corrVars, snipVars, authVars, genVars>>

\* one iteration whose git show succeeds and prints out
FetchSucceeds ==
    /\ hpc = "loop"
    /\ Len(full_history) < Len(commits)
    /\ \E out \in RawDiffs :
         /\ fetched' = Append(fetched, out)
         /\ full_history' = ProcessCommit(full_history, commits[Len(fetched) + 1],
                                          get_commit_diff(out))
    /\ UNCHANGED <<commits, hpc, parseVars, corrVars, snipVars, authVars, genVars>>

\* json.dump(full_history) after the loop
SaveHistory ==
    /\ hpc = "loop"
    /\ Len(fetched) = Len(commits)
    /\ hpc' = "saved"
    /\ UNCHANGED <<commits, fetched, full_history, parseVars, corrVars,
                   snipVars, authVars, genVars>>

NextHist == FetchFails \/ FetchSucceeds \/ SaveHistory

SpecHist == InitHist /\ [][NextHist]_vars

\* the change set of a diff text, as a list of file records
ChangeSetOf(text) == changed_files_list(parse_diff_for_lines(text))

\* C7: the history has one record per commit, in the order of the commit
\* list; a commit whose fetch failed has no changed files, every other commit
\* has the change set parsed from its own diff.
C7_HistoryPerCommit ==
    /\ Len(full_history) = Len(fetched)
    /\ Len(full_history) <= Len(commits)
    /\ hpc = "saved" => Len(full_history) = Len(commits)
    /\ \A i \in 1..Len(full_history) :
         /\ i <= Len(commits) /\ i <= Len(fetched)
         /\ full_history[i].hash = commits[i].hash
         /\ full_history[i].changed_files =
              IF fetched[i] = None THEN <<>> ELSE ChangeSetOf(fetched[i])

\* a saved history with a failed commit before a commit with recorded lines
C7_Witness ==
    /\ hpc = "saved"
    /\ \E i, j \in 1..Len(full_history) :
         /\ i < j
         /\ fetched[i] = None
         /\ fetched[j] # None
         /\ full_history[j].changed_files # <<>>
         /\ full_history[i].hash # full_history[j].hash

----------------------------------------------------------------------------
\* correlate_findings.py main: the finding correlator

PathPlain  == <<"f">>
PathDot    == <<".", "/", "f">>
PathSlash  == <<"/", "f">>
PathHidden == <<".", "f">>
PathParent == <<".", ".", "/", "f">>
FindingPaths == {PathPlain, PathDot, PathSlash, PathHidden, PathParent, None}

\* the 'start' field of a finding: {line: n}, n, a dict without line, or no field
FindingStarts == {[shape |-> "nested", line |-> 2], [shape |-> "nested", line |-> 3],
                  [shape |-> "flat", line |-> 2], [shape |-> "noline", line |-> 0],
                  [shape |-> "absent", line |-> 0]}

Findings == [path : FindingPaths, start : FindingStarts]

\* git_data.get('changed_lines', {})
ChangedLinesInputs ==
    { <<>>,
      <<[key |-> PathPlain, val |-> <<2>>]>>,
      <<[key |-> PathPlain, val |-> <<2, 3>>], [key |-> PathHidden, val |-> <<3>>]>> }

commit_details == [commit_hash |-> "c1", pr_number |-> None]

\* finding.get('start', {}).get('line') or finding.get('start')
\* an int or None has no .get: AttributeError
start_line(finding) ==
    CASE finding.start.shape = "nested" ->
           [raised |-> FALSE, truthy |-> TRUE, isint |-> TRUE, n |-> finding.start.line]
      [] finding.start.shape = "noline" ->
           [raised |-> FALSE, truthy |-> TRUE, isint |-> FALSE, n |-> 0]
      [] finding.start.shape = "absent" ->
           [raised |-> FALSE, truthy |-> FALSE, isint |-> FALSE, n |-> 0]
      [] finding.start.shape = "flat" ->
           [raised |-> TRUE, truthy |-> FALSE, isint |-> FALSE, n |-> 0]

\* path.lstrip('./').lstrip('/')
normalized_path(path) == lstripChars(lstripChars(path, {".", "/"}), {"/"})

\* normalized_path in changed_lines and start_line in changed_lines[normalized_path]
IsChanged(cl, path, sl) ==
    /\ normalized_path(path) \in DictKeys(cl)
    /\ sl.isint
    /\ \E j \in 1..Len(DictGet(cl, normalized_path(path))) :
          DictGet(cl, normalized_path(path))[j] = sl.n

\* which way the loop body goes for a finding
FindingBranch(cl, finding) ==
    LET sl == start_line(finding) IN
    IF sl.raised THEN "raise"
    ELSE IF ~Truthy(finding.path) \/ ~sl.truthy THEN "skip"
    ELSE IF IsChanged(cl, finding.path, sl) THEN "keep"
    ELSE "drop"

InitCorr ==
    /\ changed_lines \in ChangedLinesInputs
    /\ results \in UNION {[1..n -> Findings] : n \in 0..MaxFindings}
    /\ cidx = 0
    /\ filtered_findings = <<>>
    /\ report = [written |-> FALSE, findings |-> <<>>]
    /\ cpc = "loop"
    /\ IdleParse /\ IdleHist /\ IdleSnip /\ IdleAuth /\ IdleGen

NextFinding(br) ==
    /\ cpc = "loop"
    /\ cidx < Len(results)
    /\ FindingBranch(changed_lines, results[cidx + 1]) = br

\* the start field has no .get: the exception ends the program, no report
RaiseOnStart ==
    /\ NextFinding("raise")
    /\ cpc' = "raised"
    /\ UNCHANGED <<changed_lines, results, cidx, filtered_findings, report,
                   parseVars, histVars, snipVars, authVars, genVars>>

\* `continue` on a missing path or start line
SkipFinding ==
    /\ NextFinding("skip")
    /\ cidx' = cidx + 1
    /\ UNCHANGED <<changed_lines, results, filtered_findings, report, cpc,
                   parseVars, histVars, snipVars, authVars, genVars>>

\* match: the enriched copy is appended
KeepFinding ==
    /\ NextFinding("keep")
    /\ cidx' = cidx + 1
    /\ filtered_findings' = Append(filtered_findings,
           [finding |-> results[cidx + 1], commit_details |-> commit_details])
    /\ UNCHANGED <<changed_lines, results, report, cpc,
                   parseVars, histVars, snipVars, authVars, genVars>>

\* file or line not changed
DropFinding ==
    /\ NextFinding("drop")
    /\ cidx' = cidx + 1
    /\ UNCHANGED <<changed_lines, results, filtered_findings, report, cpc,
                   parseVars, histVars, snipVars, authVars, genVars>>

\* json.dump(report) after the loop
WriteReport ==
    /\ cpc = "loop"
    /\ cidx = Len(results)
    /\ report' = [written |-> TRUE, findings |-> filtered_findings]
    /\ cpc' = "done"
    /\ UNCHANGED <<changed_lines, results, cidx, filtered_findings,
                   parseVars, histVars, snipVars, authVars, genVars>>

NextCorr == RaiseOnStart \/ SkipFinding \/ KeepFinding \/ DropFinding \/ WriteReport

SpecCorr == InitCorr /\ [][NextCorr]_vars

\* the finding is in the findings list of the written report
InOutput(f) ==
    /\ report.written
    /\ \E j \in 1..Len(report.findings) : report.findings[j].finding = f

HasPathAndLine(f) == Truthy(f.path) /\ f.start.shape \in {"nested", "flat"}

LineIn(cl, key, n) ==
    /\ key \in DictKeys(cl)
    /\ \E j \in 1..Len(DictGet(cl, key)) : DictGet(cl, key)[j] = n

\* C2: when the run has ended, a finding with a path and a start line is in
\* the output iff its normalized path is a key of changed_lines and its start
\* line is in that key's list.
C2_MembershipRule ==
    cpc \in {"done", "raised"} =>
        \A i \in 1..Len(results) :
            HasPathAndLine(results[i]) =>
                (InOutput(results[i]) <=>
                   LineIn(changed_lines, normalized_path(results[i].path),
                          results[i].start.line))

\* C3: no finding raises; a nested or flat start line is subject to the
\* membership rule and a finding with neither is skipped.
C3_EitherShapeNoError ==
    /\ cpc # "raised"
    /\ cpc = "done" =>
         \A i \in 1..Len(results) :
             IF HasPathAndLine(results[i])
             THEN InOutput(results[i]) <=>
                    LineIn(changed_lines, normalized_path(results[i].path),
                           results[i].start.line)
             ELSE ~InOutput(results[i])

\* the path with one leading "./" or one leading "/" removed
SingleStrip(path) ==
    IF startswith(path, <<".", "/">>) THEN SubSeq(path, 3, Len(path))
    ELSE IF startswith(path, <<"/">>) THEN SubSeq(path, 2, Len(path))
    ELSE path

\* C4: the looked-up path is the finding's path less a single leading "./"
\* or "/": in a written report a finding with a nested start line is kept
\* iff its line is in the list of that path.
C4_SinglePrefixRemoved ==
    cpc = "done" =>
        \A i \in 1..Len(results) :
            (Truthy(results[i].path) /\ results[i].start.shape = "nested") =>
                (InOutput(results[i]) <=>
                    LineIn(changed_lines, SingleStrip(results[i].path),
                           results[i].start.line))

----------------------------------------------------------------------------
\* get_lines_author.py find_snippet_in_file

LineA      == <<"a">>
LineIndent == <<" ", " ", "a">>
LineB      == <<"b", " ">>
LineBlank  == <<" ">>
TextLines  == {LineA, LineIndent, LineB, LineBlank}

\* (None, None)
NotFound == [range |-> FALSE, start |-> 0, end |-> 0]

\* f.readlines(): every line keeps its newline
readlines(text) == [k \in 1..Len(text) |-> text[k] \o <<"\n">>]

NonBlank(line) == strip(line) # <<>>

\* [l.strip() for l in snippet_text.splitlines() if l.strip()]
snippet_fingerprint(snippet) ==
    LET snippet_lines == SelectSeq(snippet, NonBlank)
    IN  [k \in 1..Len(snippet_lines) |-> strip(snippet_lines[k])]

\* [l.strip() for l in file_lines]
file_fingerprints(text) ==
    LET file_lines == readlines(text)
    IN  [k \in 1..Len(file_lines) |-> strip(file_lines[k])]

\* SearchStop that misses the last window: range(len(file_fingerprints) - n)
SearchStop_OffByOne(len, n) == len - n

\* the stop value of range(len(file_fingerprints) - n + 1)
SearchStop(len, n) == len - n + 1

InitSnip ==
    /\ file_text \in UNION {[1..n -> TextLines] : n \in 0..MaxFileLines}
    /\ snippet_text \in UNION {[1..n -> TextLines] : n \in 0..MaxSnippetLines}
    /\ readable \in BOOLEAN
    /\ widx = 0
    /\ found = NotFound
    /\ spc = "read"
    /\ IdleParse /\ IdleHist /\ IdleCorr /\ IdleAuth /\ IdleGen

\* open/readlines raises: return None, None
ReadFails ==
    /\ spc = "read" /\ ~readable
    /\ found' = NotFound
    /\ spc' = "done"
    /\ UNCHANGED <<file_text, readable, snippet_text, widx,
                   parseVars, histVars, corrVars, authVars, genVars>>

ReadSucceeds ==
    /\ spc = "read" /\ readable
    /\ spc' = "prepare"
    /\ UNCHANGED <<file_text, readable, snippet_text, widx, found,
                   parseVars, histVars, corrVars, authVars, genVars>>

\* no snippet line is left: return None, None
EmptySnippet ==
    /\ spc = "prepare"
    /\ snippet_fingerprint(snippet_text) = <<>>
    /\ found' = NotFound
    /\ spc' = "done"
    /\ UNCHANGED <<file_text, readable, snippet_text, widx,
                   parseVars, histVars, corrVars, authVars, genVars>>

StartSearch ==
    /\ spc = "prepare"
    /\ snippet_fingerprint(snippet_text) # <<>>
    /\ widx' = 0
    /\ spc' = "search"
    /\ UNCHANGED <<file_text, readable, snippet_text, found,
                   parseVars, histVars, corrVars, authVars, genVars>>

\* file_fingerprints[i : i+n] for the 0-based i
Window(i) ==
    SubSeq(file_fingerprints(file_text), i + 1,
           i + Len(snippet_fingerprint(snippet_text)))

InRange ==
    widx < SearchStop(Len(file_text), Len(snippet_fingerprint(snippet_text)))

\* window == snippet_fingerprint: return i + 1, i + n
WindowMatches ==
    /\ spc = "search" /\ InRange
    /\ Window(widx) = snippet_fingerprint(snippet_text)
    /\ found' = [range |-> TRUE, start |-> widx + 1,
                 end |-> widx + Len(snippet_fingerprint(snippet_text))]
    /\ spc' = "done"
    /\ UNCHANGED <<file_text, readable, snippet_text, widx,
                   parseVars, histVars, corrVars, authVars, genVars>>

WindowDiffers ==
    /\ spc = "search" /\ InRange
    /\ Window(widx) # snippet_fingerprint(snippet_text)
    /\ widx' = widx + 1
    /\ UNCHANGED <<file_text, readable, snippet_text, found, spc,
                   parseVars, histVars, corrVars, authVars, genVars>>

\* the loop ends without a match: return None, None
SearchExhausted ==
    /\ spc = "search" /\ ~InRange
    /\ found' = NotFound
    /\ spc' = "done"
    /\ UNCHANGED <<file_text, readable, snippet_text, widx,
                   parseVars, histVars, corrVars, authVars, genVars>>

NextSnip == \/ ReadFails \/ ReadSucceeds \/ EmptySnippet \/ StartSearch
            \/ WindowMatches \/ WindowDiffers \/ SearchExhausted

SpecSnip == InitSnip /\ [][NextSnip]_vars

\* the snippet lines that are not empty after stripping, in order
KeptSnippetLines == {k \in 1..Len(snippet_text) : strip(snippet_text[k]) # <<>>}
\* the j-th kept snippet line
KeptAt(j) == CHOOSE k \in KeptSnippetLines :
                 Cardinality({m \in KeptSnippetLines : m <= k}) = j
\* the n file lines from the 1-based line i equal the kept snippet lines
MatchesAt(i) ==
    /\ i >= 1
    /\ i + Cardinality(KeptSnippetLines) - 1 <= Len(file_text)
    /\ \A j \in 1..Cardinality(KeptSnippetLines) :
          strip(file_text[i + j - 1]) = strip(snippet_text[KeptAt(j)])
MatchStarts == {i \in 1..Len(file_text) : MatchesAt(i)}

----------------------------------------------------------------------------
\* get_lines_author.py analyze_authors and the result built by main

Identities == {[author |-> "A", email |-> "a@x"], [author |-> "A", email |-> "b@x"],
               [author |-> "B", email |-> "b@x"]}

\* authors[key] += 1, after authors[key] = 0 for a new key
CountKey(d, key) ==
    IF \E i \in 1..Len(d) : d[i].key = key
    THEN [i \in 1..Len(d) |-> IF d[i].key = key
                               THEN [key |-> key, val |-> d[i].val + 1] ELSE d[i]]
    ELSE Append(d, [key |-> key, val |-> 1])

\* InsertDesc that puts item before the items of equal count (ties reversed)
InsertDesc_TiesReversed(sorted, item) ==
    LET before == {i \in 1..Len(sorted) : sorted[i].val > item.val}
        cut == IF before = {} THEN 0 ELSE Max(before)
    IN  SubSeq(sorted, 1, cut) \o <<item>> \o SubSeq(sorted, cut + 1, Len(sorted))

\* insert item behind every item whose count is not smaller (stable)
InsertDesc(sorted, item) ==
    LET before == {i \in 1..Len(sorted) : sorted[i].val >= item.val}
        cut == IF before = {} THEN 0 ELSE Max(before)
    IN  SubSeq(sorted, 1, cut) \o <<item>> \o SubSeq(sorted, cut + 1, Len(sorted))

\* sorted(authors.items(), key=lambda x: x[1], reverse=True)
RECURSIVE SortedDesc(_)
SortedDesc(items) ==
    IF items = <<>> THEN <<>>
    ELSE InsertDesc(SortedDesc(SubSeq(items, 1, Len(items) - 1)), items[Len(items)])

InitAuth ==
    /\ blame_data \in UNION {[1..n -> Identities] : n \in 1..MaxBlame}
    /\ aidx = 0
    /\ authors = <<>>
    /\ sorted_authors = <<>>
    /\ result = [built |-> FALSE]
    /\ apc = "count"
    /\ IdleParse /\ IdleHist /\ IdleCorr /\ IdleSnip /\ IdleGen

\* one iteration of `for line in blame_data`
CountLine ==
    /\ apc = "count"
    /\ aidx < Len(blame_data)
    /\ authors' = CountKey(authors, blame_data[aidx + 1])
    /\ aidx' = aidx + 1
    /\ UNCHANGED <<blame_data, sorted_authors, result, apc,
                   parseVars, histVars, corrVars, snipVars, genVars>>

SortAuthors ==
    /\ apc = "count"
    /\ aidx = Len(blame_data)
    /\ sorted_authors' = SortedDesc(authors)
    /\ apc' = "report"
    /\ UNCHANGED <<blame_data, aidx, authors, result,
                   parseVars, histVars, corrVars, snipVars, genVars>>

\* the result dict of main
BuildResult ==
    /\ apc = "report"
    /\ result' =
         [built |-> TRUE,
          latest_author |->
             [name |-> IF sorted_authors # <<>> THEN sorted_authors[1].key.author
                       ELSE "Unknown",
              email |-> IF sorted_authors # <<>> THEN sorted_authors[1].key.email
                        ELSE "Unknown",
              confidence |-> IF Len(sorted_authors) = 1 THEN "High" ELSE "Medium"],
          all_contributors |->
             [i \in 1..Len(sorted_authors) |->
                 [name |-> sorted_authors[i].key.author,
                  email |-> sorted_authors[i].key.email,
                  lines_count |-> sorted_authors[i].val]]]
    /\ apc' = "done"
    /\ UNCHANGED <<blame_data, aidx, authors, sorted_authors,
                   parseVars, histVars, corrVars, snipVars, genVars>>

NextAuth == CountLine \/ SortAuthors \/ BuildResult

SpecAuth == InitAuth /\ [][NextAuth]_vars

IdentityOf(c) == [author |-> c.name, email |-> c.email]
LinesOf(id) == {i \in 1..Len(blame_data) : blame_data[i] = id}
FirstSeen(id) == Min(LinesOf(id))
Present == {blame_data[i] : i \in 1..Len(blame_data)}

\* C9: one entry per distinct (author, email) with its line count, sorted by
\* count descending, ties in first-seen order; the primary author is the first
\* entry; confidence is High iff one distinct pair occurs, else Medium.
C9_RankedContributors ==
    apc = "done" =>
        LET c == result.all_contributors IN
        /\ {IdentityOf(c[i]) : i \in 1..Len(c)} = Present
        /\ Len(c) = Cardinality(Present)
        /\ \A i \in 1..Len(c) : c[i].lines_count = Cardinality(LinesOf(IdentityOf(c[i])))
        /\ \A i, j \in 1..Len(c) :
              i < j => \/ c[i].lines_count > c[j].lines_count
                       \/ /\ c[i].lines_count = c[j].lines_count
                          /\ FirstSeen(IdentityOf(c[i])) < FirstSeen(IdentityOf(c[j]))
        /\ result.latest_author.name = c[1].name
        /\ result.latest_author.email = c[1].email
        /\ result.latest_author.confidence \in {"High", "Medium"}
        /\ result.latest_author.confidence = "High" <=> Cardinality(Present) = 1

\* three identities: the one seen last has the most lines, the others tie
C9_Witness ==
    /\ apc = "done"
    /\ Len(result.all_contributors) = 3
    /\ result.all_contributors[2].lines_count = result.all_contributors[3].lines_count
    /\ result.all_contributors[1].lines_count > result.all_contributors[2].lines_count
    /\ FirstSeen(IdentityOf(result.all_contributors[1])) > 2
    /\ result.latest_author.confidence = "Medium"

----------------------------------------------------------------------------
\* ci-gen.py main: the single-commit report, then read by the correlator

PathG == <<"g">>

\* git diff HEAD~1 HEAD -- file: the text printed and the new-revision lines
\* that the commit added to the file
HeadF2  == [file |-> PathPlain, added |-> {2},
            text |-> Join(<<HdrF, Hunk1, Context, Added, <<>>>>)]
HeadF13 == [file |-> PathPlain, added |-> {1, 3},
            text |-> Join(<<HdrF, Hunk1, Added, Hunk3, Removed, Added, <<>>>>)]
HeadG1  == [file |-> PathG, added |-> {1},
            text |-> Join(<<HdrG, Hunk1, Added, <<>>>>)]
HeadFiles == {HeadF2, HeadF13, HeadG1}

\* the commits at HEAD: each changed file once
HeadCommits ==
    {c \in UNION {[1..n -> HeadFiles] : n \in 0..MaxHeadFiles} :
        \A i, j \in 1..Len(c) : i # j => c[i].file # c[j].file}

GithubEvents == {"local", "push", "pull_request"}

\* get_git_info()
get_git_info ==
    [commit_hash |-> "c1", commit_author_name |-> "dev",
     commit_author_email |-> "dev@x", commit_message |-> "msg"]

\* get_github_actions_context()
get_github_actions_context(event) ==
    LET context == [actor |-> "dev",
                    event_name |-> IF event = "local" THEN None ELSE event,
                    repository |-> "repo", ref |-> "ref"]
    IN  CASE event = "pull_request" ->
               context @@ [event_payload |-> "payload", pr_creator |-> "dev",
                           pr_title |-> "title", pr_number |-> 1]
          [] event = "push" ->
               context @@ [event_payload |-> "payload", pusher |-> "dev"]
          [] OTHER -> context

\* dict.get(key, default)
GetOr(d, key, default) == IF key \in DOMAIN d THEN d[key] ELSE default

InitGen ==
    /\ head_commit \in HeadCommits
    /\ github_event \in GithubEvents
    /\ data = <<>>
    /\ changed_files = <<>>
    /\ gidx = 0
    /\ gpc = "gather"
    /\ IdleParse /\ IdleHist /\ IdleCorr /\ IdleSnip /\ IdleAuth

\* data = {'git_info': ..., 'ci_context': ..., 'changes': []}
GatherDetails ==
    /\ gpc = "gather"
    /\ data' = [git_info |-> get_git_info,
                ci_context |-> get_github_actions_context(github_event),
                changes |-> <<>>]
    /\ gpc' = "list"
    /\ UNCHANGED <<head_commit, github_event, changed_files, gidx,
                   parseVars, histVars, corrVars, snipVars, authVars>>

\* get_changed_files(): git diff-tree prints the names of the changed files
ListChangedFiles ==
    /\ gpc = "list"
    /\ changed_files' = [i \in 1..Len(head_commit) |-> head_commit[i].file]
    /\ data' = data @@ [changed_files_list |-> changed_files']
    /\ gpc' = "diffs"
    /\ UNCHANGED <<head_commit, github_event, gidx,
                   parseVars, histVars, corrVars, snipVars, authVars>>

\* get_changed_files(): git diff-tree fails or prints nothing: []
ListFails ==
    /\ gpc = "list"
    /\ changed_files' = <<>>
    /\ data' = data @@ [changed_files_list |-> <<>>]
    /\ gpc' = "diffs"
    /\ UNCHANGED <<head_commit, github_event, gidx,
                   parseVars, histVars, corrVars, snipVars, authVars>>

\* one iteration of `for file in changed_files` whose diff is not empty
CollectDiff ==
    /\ gpc = "diffs"
    /\ gidx < Len(changed_files)
    /\ LET diff == strip(head_commit[gidx + 1].text) IN
       /\ diff # <<>>
       /\ data' = [data EXCEPT !.changes =
                      Append(@, [file |-> changed_files[gidx + 1], diff |-> diff])]
    /\ gidx' = gidx + 1
    /\ UNCHANGED <<head_commit, github_event, changed_files, gpc,
                   parseVars, histVars, corrVars, snipVars, authVars>>

\* one iteration whose git diff fails (no HEAD~1 in the checkout): no entry
DiffFails ==
    /\ gpc = "diffs"
    /\ gidx < Len(changed_files)
    /\ gidx' = gidx + 1
    /\ UNCHANGED <<head_commit, github_event, data, changed_files, gpc,
                   parseVars, histVars, corrVars, snipVars, authVars>>

\* json.dump(data) to ci_git_report.json
WriteGitReport ==
    /\ gpc = "diffs"
    /\ gidx = Len(changed_files)
    /\ gpc' = "written"
    /\ UNCHANGED <<head_commit, github_event, data, changed_files, gidx,
                   parseVars, histVars, corrVars, snipVars, authVars>>

\* the correlator loads ci_git_report.json and the findings report
LoadReports ==
    /\ gpc = "written"
    /\ cpc = "idle"
    /\ changed_lines' = GetOr(data, "changed_lines", <<>>)
    /\ results' \in UNION {[1..n -> Findings] : n \in 0..MaxFindings}
    /\ cidx' = 0
    /\ filtered_findings' = <<>>
    /\ cpc' = "loop"
    /\ UNCHANGED <<report, genVars, parseVars, histVars, snipVars, authVars>>

\* the body of `for finding in results` on the next finding
CorrelateFinding ==
    /\ cpc = "loop"
    /\ cidx < Len(results)
    /\ LET br == FindingBranch(changed_lines, results[cidx + 1]) IN
       /\ cpc' = IF br = "raise" THEN "raised" ELSE cpc
       /\ cidx' = IF br = "raise" THEN cidx ELSE cidx + 1
       /\ filtered_findings' =
            IF br = "keep"
            THEN Append(filtered_findings,
                        [finding |-> results[cidx + 1],
                         commit_details |-> commit_details])
            ELSE filtered_findings
    /\ UNCHANGED <<changed_lines, results, report, genVars,
                   parseVars, histVars, snipVars, authVars>>

NextGen == \/ GatherDetails \/ ListChangedFiles \/ ListFails \/ CollectDiff
           \/ DiffFails \/ WriteGitReport \/ LoadReports \/ CorrelateFinding
           \/ WriteReport

SpecGen == InitGen /\ [][NextGen]_vars

\* the HEAD commit added line n to the file
AddedByHead(file, n) ==
    \E i \in 1..Len(head_commit) :
        head_commit[i].file = file /\ n \in head_commit[i].added

\* a finding with a nested start line on a line added by the HEAD commit, in
\* a file whose diff the report holds
OnAddedLine(f) ==
    /\ Truthy(f.path)
    /\ f.start.shape = "nested"
    /\ AddedByHead(SingleStrip(f.path), f.start.line)
    /\ \E j \in 1..Len(data.changes) : data.changes[j].file = SingleStrip(f.path)

\* C11: the report of ci-gen carries changed_lines with git_info and
\* ci_context, so that the correlator run on it reports every finding on a
\* line added by the HEAD commit as relevant.
C11_ReportFeedsCorrelator ==
    cpc = "done" =>
        \A i \in 1..Len(results) :
            OnAddedLine(results[i]) =>
                /\ {"changed_lines", "git_info", "ci_context"} \subseteq DOMAIN data
                /\ InOutput(results[i])

====
